---- MODULE Spec2Model ----
(***************************************************************************)
(* A model of llm_module: the resilience wrappers of safety.py             *)
(* (retry_on_failure, call_with_fallback, call_with_retry_and_fallback)    *)
(* and the validators of parser.py (parse_json, validate_choice,           *)
(* validate_length).                                                       *)
(*                                                                         *)
(* Python values are modelled as records of one shape, PyVal; Python       *)
(* strings are sequences of one-character strings.                         *)
(***************************************************************************)
EXTENDS Integers, Sequences, FiniteSets, TLC

VARIABLES
    \* ---- safety.py: one call of a resilience wrapper
    fn,              \* which wrapper was called
    max_attempts,    \* its max_attempts argument
    delay,           \* its delay argument
    backoff,         \* its backoff argument
    fallback_value,  \* its fallback_value argument
    attempt,         \* the loop variable of retry_on_failure
    current_delay,   \* the local current_delay
    outcomes,        \* what func did at each invocation so far
    waits,           \* the arguments of the time.sleep calls so far
    retry_result,    \* what retry_on_failure returned
    result,          \* what the called wrapper returned
    pc,              \* the position of the call
    \* ---- parser.py: one call of a validator
    op,              \* which validator was called
    text,            \* its text argument
    required_keys,   \* parse_json's required_keys
    allow_extra_keys,\* parse_json's allow_extra_keys
    valid_choices,   \* validate_choice's valid_choices
    min_length,      \* validate_length's min_length
    max_length,      \* validate_length's max_length
    vres,            \* what the call did: the ParseResult returned or the exception raised
    vpc              \* the position of the call

rvars == <<fn, max_attempts, delay, backoff, fallback_value, attempt,
           current_delay, outcomes, waits, retry_result, result, pc>>

pvars == <<op, text, required_keys, allow_extra_keys, valid_choices, min_length,
           max_length, vres, vpc>>

vars == <<rvars, pvars>>

----------------------------------------------------------------------------
(* Bounds of the model *)

MaxAttemptsBound == 3
MaxDelay == 2
MaxBackoff == 3
MaxRequiredKeys == 2
MaxChoiceTextLen == 2
MaxChoices == 2
MaxLengthBound == 3
MaxMetadataValue == 1

----------------------------------------------------------------------------
(* Python values, as parser.py handles them *)

\* One record shape for every Python value: t is the type, n the number of an
\* int or bool, s the characters of a str, keys/vals the keys and values of a
\* dict in insertion order, vals the elements of a list.
PyNone == [t |-> "None", n |-> 0, s |-> <<>>, keys |-> <<>>, vals |-> <<>>]
PyInt(n) == [t |-> "int", n |-> n, s |-> <<>>, keys |-> <<>>, vals |-> <<>>]
PyBool(b) == [t |-> "bool", n |-> IF b THEN 1 ELSE 0, s |-> <<>>, keys |-> <<>>, vals |-> <<>>]
PyStr(s) == [t |-> "str", n |-> 0, s |-> s, keys |-> <<>>, vals |-> <<>>]
PyList(vals) == [t |-> "list", n |-> 0, s |-> <<>>, keys |-> <<>>, vals |-> vals]
PyDict(keys, vals) == [t |-> "dict", n |-> 0, s |-> <<>>, keys |-> keys, vals |-> vals]
PyTuple(vals) == [t |-> "tuple", n |-> 0, s |-> <<>>, keys |-> <<>>, vals |-> vals]

\* Python's None, as safety.py names it.
None == PyNone

Range(q) == {q[i] : i \in 1..Len(q)}

\* s[i:i+1] of Python, 1-based: the character at i, or "" past the end.
CharAt(s, i) == IF i >= 1 /\ i <= Len(s) THEN s[i] ELSE ""

\* Whitespace of str.strip() and of the JSON grammar.
PyWhitespace == {" ", "\t", "\n", "\r", "\f"}
JsonWhitespace == {" ", "\t", "\n", "\r"}

\* "not text or not text.strip()"
IsBlank(s) == \A i \in 1..Len(s) : s[i] \in PyWhitespace

\* text.strip()
Strip(s) ==
    IF IsBlank(s) THEN <<>>
    ELSE LET first == CHOOSE i \in 1..Len(s) :
                        s[i] \notin PyWhitespace /\ \A j \in 1..(i - 1) : s[j] \in PyWhitespace
             last == CHOOSE i \in 1..Len(s) :
                        s[i] \notin PyWhitespace /\ \A j \in (i + 1)..Len(s) : s[j] \in PyWhitespace
         IN SubSeq(s, first, last)

UpperLetters == <<"A", "B", "C", "D", "E", "F", "G", "H", "I", "J", "K", "L", "M",
                  "N", "O", "P", "Q", "R", "S", "T", "U", "V", "W", "X", "Y", "Z">>
LowerLetters == <<"a", "b", "c", "d", "e", "f", "g", "h", "i", "j", "k", "l", "m",
                  "n", "o", "p", "q", "r", "s", "t", "u", "v", "w", "x", "y", "z">>

LowerChar(c) ==
    IF \E i \in 1..Len(UpperLetters) : UpperLetters[i] = c
    THEN LowerLetters[CHOOSE i \in 1..Len(UpperLetters) : UpperLetters[i] = c]
    ELSE c

\* str.lower()
Lower(s) == [i \in 1..Len(s) |-> LowerChar(s[i])]

\* "k in data" for two str
IsSubstring(k, s) ==
    \E i \in 1..(Len(s) - Len(k) + 1) : SubSeq(s, i, i + Len(k) - 1) = k

----------------------------------------------------------------------------
(* json.loads, on the characters the model's texts are made of: objects,    *)
(* arrays, strings without escapes, unsigned integers, null, true, false.   *)

Digits == <<"0", "1", "2", "3", "4", "5", "6", "7", "8", "9">>
IsDigit(c) == \E i \in 1..Len(Digits) : Digits[i] = c
DigitValue(c) == (CHOOSE i \in 1..Len(Digits) : Digits[i] = c) - 1

ScanFail == [ok |-> FALSE, val |-> PyNone, end |-> 0]
ScanOk(v, e) == [ok |-> TRUE, val |-> v, end |-> e]

\* WHITESPACE.match(s, i).end()
RECURSIVE SkipWhitespace(_, _)
SkipWhitespace(s, i) ==
    IF CharAt(s, i) \in JsonWhitespace THEN SkipWhitespace(s, i + 1) ELSE i

\* py_scanstring from the character after the opening quote: up to the next
\* quote, "Unterminated string" when there is none.
ScanString(s, i) ==
    IF \E j \in i..Len(s) : s[j] = "\""
    THEN LET close == CHOOSE j \in i..Len(s) :
                        s[j] = "\"" /\ \A k \in i..(j - 1) : s[k] # "\""
         IN ScanOk(PyStr(SubSeq(s, i, close - 1)), close + 1)
    ELSE ScanFail

\* NUMBER_RE's integer part: "0", or a non-zero digit and the digits after it.
RECURSIVE ScanDigits(_, _, _)
ScanDigits(s, i, acc) ==
    IF IsDigit(CharAt(s, i))
    THEN ScanDigits(s, i + 1, 10 * acc + DigitValue(s[i]))
    ELSE ScanOk(PyInt(acc), i)

ScanNumber(s, i) ==
    IF s[i] = "0" THEN ScanOk(PyInt(0), i + 1) ELSE ScanDigits(s, i, 0)

\* dict(pairs): a repeated key keeps its first place and takes the last value.
DictSet(keys, vals, k, v) ==
    IF k \in Range(keys)
    THEN PyDict(keys, [i \in 1..Len(vals) |-> IF keys[i] = k THEN v ELSE vals[i]])
    ELSE PyDict(Append(keys, k), Append(vals, v))

IsLiteral(s, i, lit) == i + Len(lit) - 1 <= Len(s) /\ SubSeq(s, i, i + Len(lit) - 1) = lit

RECURSIVE ScanOnce(_, _), ObjectMembers(_, _, _, _), ArrayItems(_, _, _)

\* JSONObject from the character after "{".
ParseObject(s, i) ==
    LET j == SkipWhitespace(s, i)
    IN IF CharAt(s, j) = "}" THEN ScanOk(PyDict(<<>>, <<>>), j + 1)
       ELSE IF CharAt(s, j) # "\"" THEN ScanFail
       ELSE ObjectMembers(s, j + 1, <<>>, <<>>)

\* One "key": value pair from the character after the key's opening quote,
\* then "}" or "," and the next pair.
ObjectMembers(s, i, keys, vals) ==
    LET key == ScanString(s, i)
        colon == SkipWhitespace(s, key.end)
        value == ScanOnce(s, SkipWhitespace(s, colon + 1))
        after == SkipWhitespace(s, value.end)
        d == DictSet(keys, vals, key.val.s, value.val)
        next == SkipWhitespace(s, after + 1)
    IN IF ~key.ok THEN ScanFail
       ELSE IF CharAt(s, colon) # ":" THEN ScanFail
       ELSE IF ~value.ok THEN ScanFail
       ELSE IF CharAt(s, after) = "}" THEN ScanOk(d, after + 1)
       ELSE IF CharAt(s, after) # "," THEN ScanFail
       ELSE IF CharAt(s, next) # "\"" THEN ScanFail
       ELSE ObjectMembers(s, next + 1, d.keys, d.vals)

\* JSONArray from the character after "[".
ParseArray(s, i) ==
    LET j == SkipWhitespace(s, i)
    IN IF CharAt(s, j) = "]" THEN ScanOk(PyList(<<>>), j + 1)
       ELSE ArrayItems(s, j, <<>>)

ArrayItems(s, i, vals) ==
    LET value == ScanOnce(s, i)
        after == SkipWhitespace(s, value.end)
    IN IF ~value.ok THEN ScanFail
       ELSE IF CharAt(s, after) = "]" THEN ScanOk(PyList(Append(vals, value.val)), after + 1)
       ELSE IF CharAt(s, after) # "," THEN ScanFail
       ELSE ArrayItems(s, SkipWhitespace(s, after + 1), Append(vals, value.val))

\* scanner.py_make_scanner's _scan_once
ScanOnce(s, i) ==
    LET c == CharAt(s, i)
    IN IF c = "\"" THEN ScanString(s, i + 1)
       ELSE IF c = "{" THEN ParseObject(s, i + 1)
       ELSE IF c = "[" THEN ParseArray(s, i + 1)
       ELSE IF IsLiteral(s, i, <<"n", "u", "l", "l">>) THEN ScanOk(PyNone, i + 4)
       ELSE IF IsLiteral(s, i, <<"t", "r", "u", "e">>) THEN ScanOk(PyBool(TRUE), i + 4)
       ELSE IF IsLiteral(s, i, <<"f", "a", "l", "s", "e">>) THEN ScanOk(PyBool(FALSE), i + 5)
       ELSE IF IsDigit(c) THEN ScanNumber(s, i)
       ELSE ScanFail

\* JSONDecoder.decode: one value between optional whitespace, "Extra data"
\* when anything follows. ok is FALSE where json.loads raises JSONDecodeError.
JsonLoads(s) ==
    LET r == ScanOnce(s, SkipWhitespace(s, 1))
    IN IF r.ok /\ SkipWhitespace(s, r.end) = Len(s) + 1 THEN r ELSE ScanFail

\* re.search(r'\{[^{}]*\}', text, re.DOTALL): the leftmost "{" whose next brace
\* is a "}".
BraceMatches(s) ==
    {m \in (1..Len(s)) \X (1..Len(s)) :
        /\ m[1] < m[2]
        /\ s[m[1]] = "{" /\ s[m[2]] = "}"
        /\ \A k \in (m[1] + 1)..(m[2] - 1) : s[k] \notin {"{", "}"}}

\* A greedy pattern, r'\{.*\}': from the first "{" to the last "}".
ReSearchBraces_Greedy(s) ==
    LET opens == {i \in 1..Len(s) : s[i] = "{"}
        closes == {j \in 1..Len(s) : s[j] = "}"}
        first == CHOOSE i \in opens : \A o \in opens : i <= o
        last == CHOOSE j \in closes : \A o \in closes : j >= o
    IN IF opens = {} \/ closes = {} THEN [found |-> FALSE, start |-> 0, group |-> <<>>]
       ELSE IF first > last THEN [found |-> FALSE, start |-> 0, group |-> <<>>]
       ELSE [found |-> TRUE, start |-> first - 1, group |-> SubSeq(s, first, last)]

ReSearchBraces(s) ==
    IF BraceMatches(s) = {} THEN [found |-> FALSE, start |-> 0, group |-> <<>>]
    ELSE LET m == CHOOSE m \in BraceMatches(s) : \A o \in BraceMatches(s) : m[1] <= o[1]
         IN [found |-> TRUE, start |-> m[1] - 1, group |-> SubSeq(s, m[1], m[2])]

----------------------------------------------------------------------------
(* parser.py *)

\* ParseResult.__init__
NoError == [kind |-> "None", keys |-> <<>>]
Error(kind, keys) == [kind |-> kind, keys |-> keys]

ParseResult(success, data, error, raw_text, validation_steps) ==
    [success |-> success, data |-> data, error |-> error, raw_text |-> raw_text,
     validation_steps |-> validation_steps]

\* What a call does: it returns a ParseResult or raises.
Returned(r) == [exc |-> "none", ret |-> r]
Raised(e) == [exc |-> e, ret |-> ParseResult(FALSE, PyNone, NoError, <<>>, <<>>)]

\* required_keys and max_length are Optional: None or a value.
NoKeys == [isNone |-> TRUE, keys |-> <<>>]
Keys(q) == [isNone |-> FALSE, keys |-> q]
NoLength == [isNone |-> TRUE, n |-> 0]
Length(n) == [isNone |-> FALSE, n |-> n]

\* "k in data" is defined for a dict (its keys), a list (its elements) and a
\* str (its substrings); for an int, a bool or None it raises TypeError.
SupportsIn(data) == data.t \in {"dict", "list", "str"}

KeyIn(k, data) ==
    CASE data.t = "dict" -> k \in Range(data.keys)
      [] data.t = "list" -> PyStr(k) \in Range(data.vals)
      [] data.t = "str" -> IsSubstring(k, data.s)

\* The test inverted ("if k in data").
MissingKeys_Inverted(required, data) == SelectSeq(required, LAMBDA k : KeyIn(k, data))

\* "[k for k in required_keys if k not in data]"
MissingKeys(required, data) == SelectSeq(required, LAMBDA k : ~KeyIn(k, data))

\* The test inverted ("if k in required_keys").
ExtraKeys_Inverted(required, data) == SelectSeq(data.keys, LAMBDA k : k \in Range(required))

\* The comprehension over the wrong list ("for k in required_keys if k not in data").
ExtraKeys_FromRequired(required, data) ==
    SelectSeq(required, LAMBDA k : k \notin Range(data.keys))

\* "[k for k in data.keys() if k not in required_keys]"
ExtraKeys(required, data) == SelectSeq(data.keys, LAMBDA k : k \notin Range(required))

\* "if required_keys:"
KeysGiven(rk) == ~rk.isNone /\ rk.keys # <<>>

\* Steps 4 and 5 with the "all required keys present" entry left out.
ValidateSchema_NoPresentStep(txt, rk, allow_extra, data, steps) ==
    IF ~KeysGiven(rk)
    THEN Returned(ParseResult(TRUE, data, NoError, txt, Append(steps, "complete")))
    ELSE IF ~SupportsIn(data) THEN Raised("TypeError")
    ELSE IF MissingKeys(rk.keys, data) # <<>>
    THEN Returned(ParseResult(FALSE, data,
                              Error("Schema violation: missing keys", MissingKeys(rk.keys, data)),
                              txt, Append(steps, "missing_keys")))
    ELSE IF allow_extra
    THEN Returned(ParseResult(TRUE, data, NoError, txt, Append(steps, "complete")))
    ELSE IF data.t # "dict" THEN Raised("AttributeError")
    ELSE IF ExtraKeys(rk.keys, data) # <<>>
    THEN Returned(ParseResult(FALSE, data,
                              Error("Schema violation: unexpected keys", ExtraKeys(rk.keys, data)),
                              txt, Append(steps, "extra_keys")))
    ELSE Returned(ParseResult(TRUE, data, NoError, txt,
                              steps \o <<"no_extra_keys", "complete">>))

\* Steps 4 and 5 and the end of parse_json, once data is parsed.
ValidateSchema(txt, rk, allow_extra, data, steps) ==
    IF ~KeysGiven(rk)
    THEN Returned(ParseResult(TRUE, data, NoError, txt, Append(steps, "complete")))
    ELSE IF ~SupportsIn(data) THEN Raised("TypeError")
    ELSE IF MissingKeys(rk.keys, data) # <<>>
    THEN Returned(ParseResult(FALSE, data,
                              Error("Schema violation: missing keys", MissingKeys(rk.keys, data)),
                              txt, Append(steps, "missing_keys")))
    ELSE IF allow_extra
    THEN Returned(ParseResult(TRUE, data, NoError, txt,
                              steps \o <<"required_keys_present", "complete">>))
    ELSE IF data.t # "dict" THEN Raised("AttributeError")
    ELSE IF ExtraKeys(rk.keys, data) # <<>>
    THEN Returned(ParseResult(FALSE, data,
                              Error("Schema violation: unexpected keys", ExtraKeys(rk.keys, data)),
                              txt, steps \o <<"required_keys_present", "extra_keys">>))
    ELSE Returned(ParseResult(TRUE, data, NoError, txt,
                              steps \o <<"required_keys_present", "no_extra_keys", "complete">>))

\* A no-match branch that drops the trace (validation_steps not passed on).
NoStructureFound_NoTrace(txt, steps) ==
    Returned(ParseResult(FALSE, PyNone, Error("No JSON structure found", <<>>), txt, <<>>))

\* The "else" of "if json_match"
NoStructureFound(txt, steps) ==
    Returned(ParseResult(FALSE, PyNone, Error("No JSON structure found", <<>>), txt,
                         Append(steps, "no_json_structure")))

\* Step 3: the fallback extraction after a failed direct parse.
ExtractJson(txt, rk, allow_extra, steps) ==
    LET json_match == ReSearchBraces(txt)
        extracted == JsonLoads(json_match.group)
    IN IF ~json_match.found THEN NoStructureFound(txt, steps)
       ELSE IF ~extracted.ok
       THEN Returned(ParseResult(FALSE, PyNone, Error("No valid JSON found", <<>>), txt,
                                 Append(steps, "extracted_json_invalid")))
       ELSE ValidateSchema(txt, rk, allow_extra, extracted.val, Append(steps, "extracted_json"))

parse_json(txt, rk, allow_extra) ==
    IF IsBlank(txt)
    THEN Returned(ParseResult(FALSE, PyNone, Error("Empty response", <<>>), <<>>, <<"input_empty">>))
    ELSE LET direct == JsonLoads(txt)
         IN IF direct.ok
            THEN ValidateSchema(txt, rk, allow_extra, direct.val,
                                <<"input_received", "direct_parse_succeeded">>)
            ELSE ExtractJson(txt, rk, allow_extra,
                             <<"input_received", "direct_parse_failed">>)

\* The last position holding x instead of the first.
IndexOf_Last(q, x) == CHOOSE i \in 1..Len(q) : q[i] = x /\ \A j \in (i + 1)..Len(q) : q[j] # x

\* "valid_normalized.index(normalized)": the first position holding x.
IndexOf(q, x) == CHOOSE i \in 1..Len(q) : q[i] = x /\ \A j \in 1..(i - 1) : q[j] # x

validate_choice(txt, choices) ==
    IF IsBlank(txt)
    THEN Returned(ParseResult(FALSE, PyNone, Error("Empty response", <<>>), <<>>, <<"input_empty">>))
    ELSE LET normalized == Lower(Strip(txt))
             valid_normalized == [i \in 1..Len(choices) |-> Lower(choices[i])]
         IN IF normalized \in Range(valid_normalized)
            THEN Returned(ParseResult(TRUE, PyStr(choices[IndexOf(valid_normalized, normalized)]),
                                      NoError, txt, <<"input_received", "matched_choice">>))
            ELSE Returned(ParseResult(FALSE, PyNone, Error("not one of", choices), txt,
                                      <<"input_received", "not_in_choices">>))

\* "if max_length and length > max_length": None and 0 are both falsy.
validate_length(txt, min_len, max_len) ==
    IF min_len > 0 /\ Len(txt) < min_len
    THEN Returned(ParseResult(FALSE, PyNone, Error("Text too short", <<>>), txt,
                              <<"text_length", "too_short">>))
    ELSE IF ~max_len.isNone /\ max_len.n # 0 /\ Len(txt) > max_len.n
    THEN Returned(ParseResult(FALSE, PyNone, Error("Text too long", <<>>), txt,
                              <<"text_length", "too_long">>))
    ELSE Returned(ParseResult(TRUE, PyStr(txt), NoError, txt,
                              <<"text_length", "within_bounds">>))

\* ---- the inputs of the model

\* All sequences over S of length at most n.
RECURSIVE SeqsUpTo(_, _)
SeqsUpTo(S, n) ==
    IF n = 0 THEN {<<>>}
    ELSE LET shorter == SeqsUpTo(S, n - 1)
         IN shorter \cup {Append(q, x) : q \in shorter, x \in S}

\* Documents, and the texts of the model: every piece of a document.
Samples ==
    { <<"{", "\"", "a", "\"", ":", "1", "}">>,
      <<" ", "{", "\"", "a", "\"", ":", "1", ",", "\"", "b", "\"", ":", "2", "}">>,
      <<"{", "\"", "b", "\"", ":", "1", ",", "\"", "a", "\"", ":", "1", "}">>,
      <<"x", "{", "\"", "a", "\"", ":", "1", "}", "x">>,
      <<"x", "{", "\"", "a", "\"", ":", "{", "\"", "b", "\"", ":", "1", "}", "}">>,
      <<"[", "\"", "a", "\"", ",", "1", "]">>,
      <<"\"", "a", "b", "\"">>,
      <<"n", "u", "l", "l">>,
      <<"t", "r", "u", "e">>,
      <<"[", "{", "}", "]">>,
      <<"{", "\"", "a", "\"", ":", "1", ",", "\"", "a", "\"", ":", "n", "u", "l", "l", "}">>,
      <<"{", "a", ":", "1", "}">>,
      <<"\"", "{", "}", "\"">>,
      <<"1", " ", "1", " ">>,
      <<"{", "\"", "a", "\"", ":", "1", "}", "{">>,
      <<"{", "\"", "b", "\"", ":", "{", "}", "}", "x">> }

Pieces(d) == {SubSeq(d, i, j) : i \in 1..(Len(d) + 1), j \in 0..Len(d)}
Texts == UNION {Pieces(d) : d \in Samples}

KeyNames == {<<"a">>, <<"b">>}
RequiredKeys == {NoKeys} \cup {Keys(q) : q \in SeqsUpTo(KeyNames, MaxRequiredKeys)}

ChoiceTexts == SeqsUpTo({"a", "A", "b", " "}, MaxChoiceTextLen)
ChoiceEntries == {<<"a">>, <<"A">>, <<"b">>, <<" ", "a">>, <<>>}
ChoiceLists == SeqsUpTo(ChoiceEntries, MaxChoices)

LengthTexts == SeqsUpTo({"a"}, MaxLengthBound)
Lengths == 0..MaxLengthBound
OptLengths == {NoLength} \cup {Length(n) : n \in Lengths}

NoResult == Raised("none")

RetryIdle ==
    /\ fn = "none" /\ max_attempts = 0 /\ delay = 0 /\ backoff = 0
    /\ fallback_value = None /\ attempt = 0 /\ current_delay = 0
    /\ outcomes = <<>> /\ waits = <<>> /\ retry_result = None /\ result = None
    /\ pc = "idle"

ParseIdle ==
    /\ op = "none" /\ text = <<>> /\ required_keys = NoKeys /\ allow_extra_keys = FALSE
    /\ valid_choices = <<>> /\ min_length = 0 /\ max_length = NoLength
    /\ vpc = "idle" /\ vres = NoResult

ParseInit ==
    /\ RetryIdle
    /\ op \in {"parse_json", "validate_choice", "validate_length"}
    /\ text \in CASE op = "parse_json" -> Texts
                  [] op = "validate_choice" -> ChoiceTexts
                  [] op = "validate_length" -> LengthTexts
    /\ required_keys \in IF op = "parse_json" THEN RequiredKeys ELSE {NoKeys}
    /\ allow_extra_keys \in IF op = "parse_json" THEN BOOLEAN ELSE {FALSE}
    /\ valid_choices \in IF op = "validate_choice" THEN ChoiceLists ELSE {<<>>}
    /\ min_length \in IF op = "validate_length" THEN Lengths ELSE {0}
    /\ max_length \in IF op = "validate_length" THEN OptLengths ELSE {NoLength}
    /\ vpc = "call"
    /\ vres = NoResult

Finish(r) ==
    /\ vres' = r
    /\ vpc' = IF r.exc = "none" THEN "returned" ELSE "raised"
    /\ UNCHANGED <<op, text, required_keys, allow_extra_keys, valid_choices,
                   min_length, max_length>>
    /\ UNCHANGED rvars

ParseJson ==
    /\ vpc = "call" /\ op = "parse_json"
    /\ Finish(parse_json(text, required_keys, allow_extra_keys))

ValidateChoice ==
    /\ vpc = "call" /\ op = "validate_choice"
    /\ Finish(validate_choice(text, valid_choices))

ValidateLength ==
    /\ vpc = "call" /\ op = "validate_length"
    /\ Finish(validate_length(text, min_length, max_length))

ParseNext ==
    \/ ParseJson
    \/ ValidateChoice
    \/ ValidateLength

SpecParse == ParseInit /\ [][ParseNext]_vars

----------------------------------------------------------------------------
(* safety.py *)

\* The values func may return and the caller may pass as the fallback.
ValueR1 == PyStr(<<"r", "1">>)
ValueR2 == PyStr(<<"r", "2">>)
ValueFb == PyStr(<<"f", "b">>)
FuncValues == {None, ValueR1, ValueR2}
FallbackValues == {None, ValueR1, ValueFb}

\* What one invocation of func does: it returns a value, raises an exception
\* derived from Exception, or raises one derived from BaseException only
\* (KeyboardInterrupt, SystemExit, GeneratorExit).
Returns(v) == [kind |-> "return", value |-> v]
RaisesException == [kind |-> "Exception", value |-> None]
RaisesBaseException == [kind |-> "BaseException", value |-> None]
FuncOutcomes == {Returns(v) : v \in FuncValues} \cup {RaisesException, RaisesBaseException}

\* The defaults of retry_on_failure's delay and backoff parameters.
DefaultDelay == 1
DefaultBackoff == 2

\* A handler that takes a narrower class than Exception (say "except ValueError").
CatchesKind_Narrow(kind) == FALSE

\* "except Exception as e": the handler takes exceptions derived from Exception.
CatchesKind(kind) == kind = "Exception"

\* The last-attempt test off by one.
IsLastAttempt_OffByOne(a, m) == a + 1 = m

\* "if attempt == max_attempts"
IsLastAttempt(a, m) == a = m

\* Additive instead of multiplicative growth ("current_delay += backoff").
NextDelay_Additive(d, b) == d + b

\* "current_delay *= backoff"
NextDelay(d, b) == d * b

\* "if result is None: return fallback_value" / "return result"
OrFallback(r, fb) == IF r = None THEN fb ELSE r

\* The end of the called wrapper once retry_on_failure has returned r:
\* retry_on_failure's caller gets r, call_with_retry_and_fallback's caller
\* gets r or the fallback.
ReturnOf(f, r, fb) == IF f = "call_with_retry_and_fallback" THEN OrFallback(r, fb) ELSE r

RetryInit ==
    /\ fn \in {"retry_on_failure", "call_with_fallback", "call_with_retry_and_fallback"}
    /\ max_attempts \in IF fn = "call_with_fallback" THEN {1} ELSE 0..MaxAttemptsBound
    /\ delay \in IF fn = "retry_on_failure" THEN 0..MaxDelay ELSE {DefaultDelay}
    /\ backoff \in IF fn = "retry_on_failure" THEN 0..MaxBackoff ELSE {DefaultBackoff}
    /\ fallback_value \in IF fn = "retry_on_failure" THEN {None} ELSE FallbackValues
    /\ attempt = 1
    /\ current_delay = delay
    /\ outcomes = <<>>
    /\ waits = <<>>
    /\ retry_result = None
    /\ result = None
    /\ pc = "call"
    /\ ParseIdle

InRetryLoop == pc = "call" /\ fn # "call_with_fallback" /\ attempt <= max_attempts

\* "for attempt in range(1, max_attempts + 1)" with nothing left to iterate:
\* the function falls off its end and returns None.
LoopExhausted ==
    /\ pc = "call" /\ fn # "call_with_fallback" /\ attempt > max_attempts
    /\ retry_result' = None
    /\ result' = ReturnOf(fn, None, fallback_value)
    /\ pc' = "returned"
    /\ UNCHANGED pvars
    /\ UNCHANGED <<fn, max_attempts, delay, backoff, fallback_value, attempt,
                   current_delay, outcomes, waits>>

\* A success that still sleeps before returning (the sleep moved out of the
\* except branch).
AttemptReturns_Sleeps ==
    /\ InRetryLoop
    /\ \E v \in FuncValues :
        /\ outcomes' = Append(outcomes, Returns(v))
        /\ retry_result' = v
        /\ result' = ReturnOf(fn, v, fallback_value)
    /\ waits' = Append(waits, current_delay)
    /\ pc' = "returned"
    /\ UNCHANGED pvars
    /\ UNCHANGED <<fn, max_attempts, delay, backoff, fallback_value, attempt,
                   current_delay>>

\* "return func(*args, **kwargs)" returns.
AttemptReturns ==
    /\ InRetryLoop
    /\ \E v \in FuncValues :
        /\ outcomes' = Append(outcomes, Returns(v))
        /\ retry_result' = v
        /\ result' = ReturnOf(fn, v, fallback_value)
    /\ pc' = "returned"
    /\ UNCHANGED pvars
    /\ UNCHANGED <<fn, max_attempts, delay, backoff, fallback_value, attempt,
                   current_delay, waits>>

\* func raises and it is the last attempt: "return None".
AttemptFailsLast ==
    /\ InRetryLoop
    /\ CatchesKind(RaisesException.kind)
    /\ IsLastAttempt(attempt, max_attempts)
    /\ outcomes' = Append(outcomes, RaisesException)
    /\ retry_result' = None
    /\ result' = ReturnOf(fn, None, fallback_value)
    /\ pc' = "returned"
    /\ UNCHANGED pvars
    /\ UNCHANGED <<fn, max_attempts, delay, backoff, fallback_value, attempt,
                   current_delay, waits>>

\* func raises before the last attempt: sleep, grow the delay, next iteration.
AttemptFailsRetry ==
    /\ InRetryLoop
    /\ CatchesKind(RaisesException.kind)
    /\ ~IsLastAttempt(attempt, max_attempts)
    /\ outcomes' = Append(outcomes, RaisesException)
    /\ waits' = Append(waits, current_delay)
    /\ current_delay' = NextDelay(current_delay, backoff)
    /\ attempt' = attempt + 1
    /\ UNCHANGED pvars
    /\ UNCHANGED <<fn, max_attempts, delay, backoff, fallback_value,
                   retry_result, result, pc>>

\* func raises something the handler does not take: it propagates to the
\* caller of the wrapper.
AttemptEscapes ==
    /\ InRetryLoop
    /\ \E o \in {RaisesException, RaisesBaseException} :
        /\ ~CatchesKind(o.kind)
        /\ outcomes' = Append(outcomes, o)
    /\ pc' = "raised"
    /\ UNCHANGED pvars
    /\ UNCHANGED <<fn, max_attempts, delay, backoff, fallback_value, attempt,
                   current_delay, waits, retry_result, result>>

\* A handler that forgets the fallback ("return None").
FallbackOf_Forgets(o, fb) == IF o.kind = "return" THEN o.value ELSE None

\* call_with_fallback: one try, "return func(...)" or "return fallback_value".
FallbackOf(o, fb) == IF o.kind = "return" THEN o.value ELSE fb

CallWithFallback ==
    /\ pc = "call" /\ fn = "call_with_fallback"
    /\ \E o \in FuncOutcomes :
        /\ o.kind = "return" \/ CatchesKind(o.kind)
        /\ outcomes' = Append(outcomes, o)
        /\ result' = FallbackOf(o, fallback_value)
    /\ pc' = "returned"
    /\ UNCHANGED pvars
    /\ UNCHANGED <<fn, max_attempts, delay, backoff, fallback_value, attempt,
                   current_delay, waits, retry_result>>

CallWithFallbackEscapes ==
    /\ pc = "call" /\ fn = "call_with_fallback"
    /\ \E o \in {RaisesException, RaisesBaseException} :
        /\ ~CatchesKind(o.kind)
        /\ outcomes' = Append(outcomes, o)
    /\ pc' = "raised"
    /\ UNCHANGED pvars
    /\ UNCHANGED <<fn, max_attempts, delay, backoff, fallback_value, attempt,
                   current_delay, waits, retry_result, result>>

RetryNext ==
    \/ LoopExhausted
    \/ AttemptReturns
    \/ AttemptFailsLast
    \/ AttemptFailsRetry
    \/ AttemptEscapes
    \/ CallWithFallback
    \/ CallWithFallbackEscapes

SpecRetry == RetryInit /\ [][RetryNext]_vars

----------------------------------------------------------------------------
(* experiments.py: experiment_3_failure_handling, the resilience wrapper *)
(* around call_gemini followed by parse_json                              *)

\* "max_attempts = 2"
PipelineMaxAttempts == 2

\* "fallback_value = '{"name": "unknown", "age": "unknown", "city": "unknown"}'"
FallbackJson ==
    <<"{", "\"", "n", "a", "m", "e", "\"", ":", " ", "\"", "u", "n", "k", "n", "o", "w",
      "n", "\"", ",", " ", "\"", "a", "g", "e", "\"", ":", " ", "\"", "u", "n", "k", "n",
      "o", "w", "n", "\"", ",", " ", "\"", "c", "i", "t", "y", "\"", ":", " ", "\"", "u",
      "n", "k", "n", "o", "w", "n", "\"", "}">>

\* "required_keys = ["name", "age", "city"]"
PipelineRequiredKeys == Keys(<<<<"n", "a", "m", "e">>, <<"a", "g", "e">>, <<"c", "i", "t", "y">>>>)

\* call_gemini's default model, "gemini-2.5-flash".
ModelName ==
    <<"g", "e", "m", "i", "n", "i", "-", "2", ".", "5", "-", "f", "l", "a", "s", "h">>

\* The texts the API may answer with: the model's texts and the well-formed
\* object of the fallback.
ResponseTexts == Texts \cup {FallbackJson}

\* The numbers call_gemini measures (prompt length, latency, clock).
MetadataValues == 0..MaxMetadataValue

\* call_gemini's metadata dict for the response text t.
Metadata(t, prompt_length, latency_ms, timestamp) ==
    PyDict(<<<<"p", "r", "o", "m", "p", "t", "_", "l", "e", "n", "g", "t", "h">>,
             <<"r", "e", "s", "p", "o", "n", "s", "e", "_", "l", "e", "n", "g", "t", "h">>,
             <<"l", "a", "t", "e", "n", "c", "y", "_", "m", "s">>,
             <<"m", "o", "d", "e", "l">>,
             <<"t", "i", "m", "e", "s", "t", "a", "m", "p">>>>,
           <<PyInt(prompt_length), PyInt(Len(t)), PyInt(latency_ms), PyStr(ModelName),
             PyInt(timestamp)>>)

\* "return response_text, metadata": call_gemini returns a tuple.
GeminiReturnValues ==
    {PyTuple(<<PyStr(t), Metadata(t, pl, ms, ts)>>) :
        t \in ResponseTexts, pl \in MetadataValues, ms \in MetadataValues,
        ts \in MetadataValues}

\* Python's truth value of v is False.
Falsy(v) ==
    \/ v.t = "None"
    \/ v.t \in {"int", "bool"} /\ v.n = 0
    \/ v.t = "str" /\ v.s = <<>>
    \/ v.t \in {"list", "tuple"} /\ v.vals = <<>>
    \/ v.t = "dict" /\ v.keys = <<>>

\* parse_json called with any Python value: "if not text or not text.strip()"
\* returns the empty-input result for a falsy value and calls .strip() on any
\* other, a method only str has.
ParseJsonOf(v, rk, allow_extra) ==
    IF v.t = "str" THEN parse_json(v.s, rk, allow_extra)
    ELSE IF Falsy(v)
    THEN Returned(ParseResult(FALSE, PyNone, Error("Empty response", <<>>), <<>>, <<"input_empty">>))
    ELSE Raised("AttributeError")

PipelineInit ==
    /\ fn = "call_with_retry_and_fallback"
    /\ max_attempts = PipelineMaxAttempts
    /\ delay = DefaultDelay
    /\ backoff = DefaultBackoff
    /\ fallback_value = PyStr(FallbackJson)
    /\ attempt = 1
    /\ current_delay = delay
    /\ outcomes = <<>>
    /\ waits = <<>>
    /\ retry_result = None
    /\ result = None
    /\ pc = "call"
    /\ ParseIdle

\* "return func(*args, **kwargs)" with func = call_gemini returning.
GeminiReturns ==
    /\ InRetryLoop
    /\ \E v \in GeminiReturnValues :
        /\ outcomes' = Append(outcomes, Returns(v))
        /\ retry_result' = v
        /\ result' = ReturnOf(fn, v, fallback_value)
    /\ pc' = "returned"
    /\ UNCHANGED pvars
    /\ UNCHANGED <<fn, max_attempts, delay, backoff, fallback_value, attempt,
                   current_delay, waits>>

\* "response_text = raw" and "result = parse_json(response_text,
\* required_keys=required_keys, allow_extra_keys=False)"; text keeps the
\* argument when it is a str.
ParseResponse ==
    /\ pc = "returned" /\ vpc = "idle"
    /\ op' = "parse_json"
    /\ text' = IF result.t = "str" THEN result.s ELSE text
    /\ required_keys' = PipelineRequiredKeys
    /\ allow_extra_keys' = FALSE
    /\ vres' = ParseJsonOf(result, PipelineRequiredKeys, FALSE)
    /\ vpc' = IF vres'.exc = "none" THEN "returned" ELSE "raised"
    /\ UNCHANGED <<valid_choices, min_length, max_length>>
    /\ UNCHANGED rvars

PipelineNext ==
    \/ GeminiReturns
    \/ AttemptFailsLast
    \/ AttemptFailsRetry
    \/ AttemptEscapes
    \/ ParseResponse

SpecPipeline == PipelineInit /\ [][PipelineNext]_vars

----------------------------------------------------------------------------
(* Properties of parser.py *)

ParseJsonDone == op = "parse_json" /\ vpc # "call"
ParseJsonReturned == op = "parse_json" /\ vpc = "returned"

\* The text holds a "{" with a "}" somewhere after it.
HasBracePair(s) == \E i, j \in 1..Len(s) : i < j /\ s[i] = "{" /\ s[j] = "}"

\* C7 as stated: parse_json never raises, whatever the text, required_keys and
\* allow_extra_keys, and whatever JSON value the text parses to.
C7_ParseJsonNeverRaises == op = "parse_json" => vpc # "raised"

\* C8 as stated: with required_keys given and a text that parses to a JSON
\* value that is not an object, parse_json returns a failed result that
\* reports every required key as missing.
C8_NonObjectAllKeysMissing ==
    (ParseJsonDone /\ KeysGiven(required_keys)
        /\ JsonLoads(text).ok /\ JsonLoads(text).val.t # "dict") =>
        /\ vpc = "returned"
        /\ ~vres.ret.success
        /\ vres.ret.error = Error("Schema violation: missing keys", required_keys.keys)

\* C9 as stated: a ParseResult returned by parse_json, validate_choice or
\* validate_length with success true has no error and has data that is not None.
C9_SuccessHasData ==
    (vpc = "returned" /\ vres.ret.success) =>
        /\ vres.ret.error = NoError
        /\ vres.ret.data # PyNone

\* C10 as stated: for a text that is not blank and holds no "{...}", parse_json
\* fails with 'No JSON structure found' or 'No valid JSON found' and a trace of
\* at least 2 entries.
C10_NoBracesAlwaysFails ==
    (ParseJsonDone /\ ~IsBlank(text) /\ ~HasBracePair(text)) =>
        /\ vpc = "returned"
        /\ ~vres.ret.success
        /\ vres.ret.error.kind \in {"No JSON structure found", "No valid JSON found"}
        /\ Len(vres.ret.validation_steps) >= 2

\* C10 amended: for a text that is not blank, holds no "{...}" and is not a
\* JSON document itself, parse_json fails with 'No JSON structure found', no
\* data, the text as raw_text and a trace of 3 entries: receipt, failed direct
\* parse, no structure found.
C10_NoBracesNotJsonFails ==
    (ParseJsonDone /\ ~IsBlank(text) /\ ~HasBracePair(text) /\ ~JsonLoads(text).ok) =>
        /\ vpc = "returned"
        /\ ~vres.ret.success
        /\ vres.ret.error = Error("No JSON structure found", <<>>)
        /\ vres.ret.data = PyNone
        /\ vres.ret.raw_text = text
        /\ vres.ret.validation_steps =
              <<"input_received", "direct_parse_failed", "no_json_structure">>

C10_Witness ==
    /\ ParseJsonReturned
    /\ text = <<"1", " ", "1", " ">>
    /\ required_keys = Keys(<<<<"a">>>>)
    /\ vres.ret.error.kind = "No JSON structure found"
    /\ Len(vres.ret.validation_steps) = 3

\* The number of places of s that hold c.
CountOf(s, c) == Cardinality({i \in 1..Len(s) : s[i] = c})

\* One brace pair with one brace pair inside it, and no other brace.
IsNestedPair(s) ==
    /\ CountOf(s, "{") = 2 /\ CountOf(s, "}") = 2
    /\ \E i, j, k, l \in 1..Len(s) :
        /\ i < j /\ j < k /\ k < l
        /\ s[i] = "{" /\ s[j] = "{" /\ s[k] = "}" /\ s[l] = "}"

\* The leftmost brace pair with no brace inside it.
FirstInnermostPair(s) ==
    LET m == CHOOSE m \in BraceMatches(s) : \A o \in BraceMatches(s) : m[1] <= o[1]
    IN SubSeq(s, m[1], m[2])

HasNestedValue(data) ==
    \E i \in 1..Len(data.vals) :
        \/ data.vals[i].t = "dict"
        \/ data.vals[i].t = "list" /\ \E j \in 1..Len(data.vals[i].vals) : data.vals[i].vals[j].t = "dict"

\* C11 as stated: when the whole text is not JSON and its only brace pair
\* holds another brace pair, the fallback extraction finds no match and
\* parse_json fails with 'No JSON structure found' and no data.
C11_NestedYieldsNoMatch ==
    (ParseJsonDone /\ ~JsonLoads(text).ok /\ IsNestedPair(text)) =>
        /\ vpc = "returned"
        /\ ~vres.ret.success
        /\ vres.ret.error = Error("No JSON structure found", <<>>)
        /\ vres.ret.data = PyNone

\* C11 amended: when the whole text is not JSON, the fallback extraction
\* matches the leftmost brace pair that holds no brace, also when that pair
\* lies inside another: 'No JSON structure found' is the result exactly when
\* no "{" is followed by a "}", and otherwise the matched inner piece is parsed
\* and, when it is JSON, becomes data, an object without nested objects.
C11_InnermostPairExtracted ==
    (ParseJsonDone /\ ~IsBlank(text) /\ ~JsonLoads(text).ok) =>
        /\ vpc = "returned"
        /\ (vres.ret.error.kind = "No JSON structure found") <=> ~HasBracePair(text)
        /\ HasBracePair(text) =>
              LET inner == JsonLoads(FirstInnermostPair(text))
              IN /\ inner.ok =>
                      /\ vres.ret.data = inner.val
                      /\ vres.ret.data.t = "dict"
                      /\ ~HasNestedValue(vres.ret.data)
                      /\ vres.ret.validation_steps[3] = "extracted_json"
                 /\ ~inner.ok =>
                      /\ vres.ret.error = Error("No valid JSON found", <<>>)
                      /\ vres.ret.data = PyNone

C11_Witness ==
    /\ ParseJsonReturned
    /\ text = <<"x", "{", "\"", "a", "\"", ":", "{", "\"", "b", "\"", ":", "1", "}", "}">>
    /\ IsNestedPair(text)
    /\ required_keys = NoKeys
    /\ vres.ret.success
    /\ vres.ret.data = PyDict(<<<<"b">>>>, <<PyInt(1)>>)

\* The value the schema checks of parse_json work on: the whole text parsed,
\* or else the parsed leftmost innermost brace pair.
Parsed(s) ==
    IF JsonLoads(s).ok THEN JsonLoads(s)
    ELSE IF BraceMatches(s) # {} THEN JsonLoads(FirstInnermostPair(s))
    ELSE ScanFail

ParsedObject(s) == Parsed(s).ok /\ Parsed(s).val.t = "dict"

LastStep == vres.ret.validation_steps[Len(vres.ret.validation_steps)]

\* C12: a text that is a JSON object whose key set is the set of required_keys
\* makes parse_json(text, required_keys, allow_extra_keys=False) succeed with
\* the parsed object as data and the text as raw_text.
C12_ExactKeysSucceed ==
    (ParseJsonDone /\ ~required_keys.isNone /\ ~allow_extra_keys
        /\ JsonLoads(text).ok /\ JsonLoads(text).val.t = "dict"
        /\ Range(JsonLoads(text).val.keys) = Range(required_keys.keys)) =>
        /\ vpc = "returned"
        /\ vres.ret.success
        /\ vres.ret.error = NoError
        /\ vres.ret.data = JsonLoads(text).val
        /\ vres.ret.raw_text = text
        /\ LastStep = "complete"

C12_Witness ==
    /\ ParseJsonReturned /\ ~allow_extra_keys
    /\ text = <<"{", "\"", "b", "\"", ":", "1", ",", "\"", "a", "\"", ":", "1", "}">>
    /\ required_keys = Keys(<<<<"a">>, <<"b">>>>)
    /\ vres.ret.success
    /\ vres.ret.data = PyDict(<<<<"b">>, <<"a">>>>, <<PyInt(1), PyInt(1)>>)
    /\ vres.ret.raw_text = text

\* C13: with required_keys not empty and a parsed object that lacks a required
\* key, parse_json fails with 'Schema violation: missing keys L', L the absent
\* required keys in the order of required_keys, and data the parsed object;
\* no extra-keys failure is reported, whatever other keys the object has.
C13_MissingKeysReported ==
    (ParseJsonDone /\ KeysGiven(required_keys) /\ ParsedObject(text)
        /\ \E k \in Range(required_keys.keys) : k \notin Range(Parsed(text).val.keys)) =>
        /\ vpc = "returned"
        /\ ~vres.ret.success
        /\ vres.ret.error =
              Error("Schema violation: missing keys",
                    SelectSeq(required_keys.keys,
                              LAMBDA k : k \notin Range(Parsed(text).val.keys)))
        /\ vres.ret.data = Parsed(text).val
        /\ vres.ret.raw_text = text
        /\ LastStep = "missing_keys"

C13_Witness ==
    /\ ParseJsonReturned /\ ~allow_extra_keys
    /\ text = <<"x", "{", "\"", "a", "\"", ":", "1", "}", "x">>
    /\ required_keys = Keys(<<<<"b">>, <<"a">>>>)
    /\ vres.ret.error = Error("Schema violation: missing keys", <<<<"b">>>>)
    /\ vres.ret.data = PyDict(<<<<"a">>>>, <<PyInt(1)>>)

\* C14: with required_keys given (a list that is not empty) and
\* allow_extra_keys false, a parsed object with every required key and a key
\* outside required_keys makes parse_json fail with 'Schema violation:
\* unexpected keys L', L those keys in the object's key order and data the
\* whole object; for a parsed object with every required key the extra-keys
\* check has a trace entry exactly when required_keys is given and
\* allow_extra_keys is false.
C14_ExtraKeysReported ==
    (ParseJsonDone /\ ParsedObject(text)
        /\ \A k \in Range(required_keys.keys) : k \in Range(Parsed(text).val.keys)) =>
        /\ vpc = "returned"
        /\ (KeysGiven(required_keys) /\ ~allow_extra_keys
              /\ \E k \in Range(Parsed(text).val.keys) : k \notin Range(required_keys.keys)) =>
              /\ ~vres.ret.success
              /\ vres.ret.error =
                    Error("Schema violation: unexpected keys",
                          SelectSeq(Parsed(text).val.keys,
                                    LAMBDA k : k \notin Range(required_keys.keys)))
              /\ vres.ret.data = Parsed(text).val
              /\ LastStep = "extra_keys"
        /\ (\E i \in 1..Len(vres.ret.validation_steps) :
                vres.ret.validation_steps[i] \in {"extra_keys", "no_extra_keys"})
              <=> (KeysGiven(required_keys) /\ ~allow_extra_keys)
        /\ ~(KeysGiven(required_keys) /\ ~allow_extra_keys) => vres.ret.success

C14_Witness ==
    /\ ParseJsonReturned /\ ~allow_extra_keys
    /\ text = <<"{", "\"", "b", "\"", ":", "1", ",", "\"", "a", "\"", ":", "1", "}">>
    /\ required_keys = Keys(<<<<"a">>>>)
    /\ vres.ret.error = Error("Schema violation: unexpected keys", <<<<"b">>>>)
    /\ vres.ret.data = PyDict(<<<<"b">>, <<"a">>>>, <<PyInt(1), PyInt(1)>>)

ValidateChoiceDone == op = "validate_choice" /\ vpc # "call"
ValidateLengthDone == op = "validate_length" /\ vpc # "call"

\* The positions of valid_choices whose lowercased entry equals s.
MatchingChoices(s) == {i \in 1..Len(valid_choices) : Lower(valid_choices[i]) = s}

FirstOf(S) == CHOOSE i \in S : \A j \in S : i <= j

C16_FailsExactlyOutOfBounds ==
    ValidateLengthDone =>
        /\ vpc = "returned"
        /\ ~vres.ret.success <=>
              \/ min_length > 0 /\ Len(text) < min_length
              \/ ~max_length.isNone /\ Len(text) > max_length.n
        /\ vres.ret.success => vres.ret.data = PyStr(text)

\* The check each trace entry of parse_json belongs to, numbered in the order
\* of the code.
StepCheck(step) ==
    CASE step \in {"input_empty", "input_received"} -> 1
      [] step \in {"direct_parse_succeeded", "direct_parse_failed"} -> 2
      [] step \in {"extracted_json", "extracted_json_invalid", "no_json_structure"} -> 3
      [] step \in {"missing_keys", "required_keys_present"} -> 4
      [] step \in {"extra_keys", "no_extra_keys"} -> 5
      [] step = "complete" -> 6
      [] OTHER -> 0

FailureSteps ==
    {"input_empty", "extracted_json_invalid", "no_json_structure", "missing_keys", "extra_keys"}

HasStep(steps, S) == \E i \in 1..Len(steps) : steps[i] \in S

\* C17: every ParseResult of parse_json has a validation_steps that is not
\* empty, starts with the input entry, has at most one entry per check in the
\* order input, direct parse, extraction (exactly when the direct parse
\* failed), required keys, extra keys (each exactly when evaluated),
\* completion; a failed result ends with the entry of the failed check, the
\* only failure entry, and a successful result ends with the completion entry.
C17_StepsFollowCheckOrder ==
    ParseJsonReturned =>
        LET steps == vres.ret.validation_steps
            n == Len(steps)
        IN /\ n >= 1
           /\ \A i \in 1..n : StepCheck(steps[i]) # 0
           /\ StepCheck(steps[1]) = 1
           /\ \A i \in 1..(n - 1) : StepCheck(steps[i]) < StepCheck(steps[i + 1])
           /\ \A i \in 1..(n - 1) : steps[i] \notin FailureSteps \cup {"complete"}
           /\ steps[1] = "input_received" => (n >= 2 /\ StepCheck(steps[2]) = 2)
           /\ HasStep(steps, {"extracted_json", "extracted_json_invalid", "no_json_structure"})
                 <=> HasStep(steps, {"direct_parse_failed"})
           /\ HasStep(steps, {"missing_keys", "required_keys_present"})
                 <=> (KeysGiven(required_keys) /\ Parsed(text).ok)
           /\ HasStep(steps, {"extra_keys", "no_extra_keys"})
                 <=> (HasStep(steps, {"required_keys_present"}) /\ ~allow_extra_keys)
           /\ vres.ret.success <=> steps[n] = "complete"
           /\ ~vres.ret.success <=> steps[n] \in FailureSteps

C17_Witness ==
    /\ ParseJsonReturned /\ vres.ret.success
    /\ vres.ret.validation_steps =
          <<"input_received", "direct_parse_failed", "extracted_json",
            "required_keys_present", "no_extra_keys", "complete">>

----------------------------------------------------------------------------
(* Properties of safety.py *)

RECURSIVE Pow(_, _)
Pow(b, e) == IF e = 0 THEN 1 ELSE b * Pow(b, e - 1)

RECURSIVE SumSeq(_)
SumSeq(q) == IF q = <<>> THEN 0 ELSE Head(q) + SumSeq(Tail(q))

NumOutcomes == Len(outcomes)
AllFailedSoFar == \A i \in 1..NumOutcomes : outcomes[i] = RaisesException
NoBaseException == \A i \in 1..NumOutcomes : outcomes[i].kind # "BaseException"
IsRetryLoop == fn \in {"retry_on_failure", "call_with_retry_and_fallback"}
ResultIsFromFuncOrFallback ==
    \/ result = fallback_value
    \/ \E i \in 1..NumOutcomes : outcomes[i].kind = "return" /\ result = outcomes[i].value

\* C1 as stated: call_with_retry_and_fallback never raises, whatever kind of
\* failure the operation signals, and returns a result of the operation or
\* exactly fallback_value.
C1_NeverRaisesAnyFailure ==
    fn = "call_with_retry_and_fallback" =>
        /\ pc # "raised"
        /\ pc = "returned" => ResultIsFromFuncOrFallback

\* C1 amended: when every failure the operation signals is an exception derived
\* from Exception, call_with_retry_and_fallback does not raise and returns a
\* result of the operation or exactly fallback_value.
C1_NeverRaisesOnException ==
    (fn = "call_with_retry_and_fallback" /\ NoBaseException) =>
        /\ pc # "raised"
        /\ pc = "returned" => ResultIsFromFuncOrFallback

C1_Witness ==
    /\ fn = "call_with_retry_and_fallback" /\ pc = "returned"
    /\ max_attempts = 3 /\ NumOutcomes = 3 /\ AllFailedSoFar
    /\ fallback_value = ValueFb /\ result = ValueFb

\* C2: with max_attempts >= 1 and an operation that fails at every attempt,
\* retry_on_failure returns exactly when the operation has been invoked
\* max_attempts times, never invokes it more often, and returns None.
C2_ExactlyMaxAttempts ==
    (IsRetryLoop /\ max_attempts >= 1 /\ AllFailedSoFar) =>
        /\ NumOutcomes <= max_attempts
        /\ pc # "raised"
        /\ (pc = "returned") <=> (NumOutcomes = max_attempts)
        /\ pc = "returned" => retry_result = None
        /\ pc = "call" => attempt = NumOutcomes + 1

C2_Witness ==
    /\ fn = "retry_on_failure" /\ pc = "returned"
    /\ max_attempts = 3 /\ NumOutcomes = 3 /\ AllFailedSoFar
    /\ result = None

SucceededAt(k) ==
    /\ NumOutcomes = k
    /\ outcomes[k].kind = "return"
    /\ \A i \in 1..(k - 1) : outcomes[i] = RaisesException

\* C3: an operation that fails at attempts 1..k-1 and succeeds at attempt
\* k <= max_attempts has been invoked exactly k times when retry_on_failure
\* returns, the return value is the k-th attempt's result, there was one wait
\* per failure and none after the success.
C3_ReturnsKthResult ==
    \A k \in 1..(MaxAttemptsBound + 1) :
        (IsRetryLoop /\ SucceededAt(k)) =>
            /\ k <= max_attempts
            /\ pc = "returned"
            /\ attempt = k
            /\ retry_result = outcomes[k].value
            /\ fn = "retry_on_failure" => result = outcomes[k].value
            /\ Len(waits) = k - 1

C3_Witness ==
    /\ fn = "retry_on_failure" /\ pc = "returned"
    /\ max_attempts = 3 /\ SucceededAt(2)
    /\ result = ValueR1 /\ Len(waits) = 1

\* C4 as stated: call_with_retry_and_fallback returns fallback_value only when
\* all max_attempts attempts failed; when an attempt succeeded it returns that
\* attempt's result.
C4_FallbackOnlyAfterExhaustion ==
    (fn = "call_with_retry_and_fallback" /\ pc = "returned") =>
        \A k \in 1..NumOutcomes :
            outcomes[k].kind = "return" => result = outcomes[k].value

\* C5: in retry_on_failure a wait follows each failed attempt but the final
\* one, the i-th wait is delay * backoff^(i-1), and when every attempt failed
\* there were max_attempts - 1 waits whose sum is the geometric sum.
C5_BackoffSchedule ==
    IsRetryLoop =>
        /\ Len(waits) =
              Cardinality({i \in 1..NumOutcomes :
                              outcomes[i] = RaisesException /\ i # max_attempts})
        /\ \A i \in 1..Len(waits) : waits[i] = delay * Pow(backoff, i - 1)
        /\ (pc = "returned" /\ max_attempts >= 1 /\ AllFailedSoFar) =>
              /\ Len(waits) = max_attempts - 1
              /\ backoff # 1 =>
                    SumSeq(waits) * (backoff - 1) =
                        delay * (Pow(backoff, max_attempts - 1) - 1)
              /\ backoff = 1 => SumSeq(waits) = delay * (max_attempts - 1)

C5_Witness ==
    /\ fn = "retry_on_failure" /\ pc = "returned" /\ AllFailedSoFar
    /\ max_attempts = 3 /\ delay = 2 /\ backoff = 3
    /\ waits = <<2, 6>>

\* C6: call_with_fallback invokes the operation once; a success is returned,
\* a failure (an exception derived from Exception) is swallowed and
\* fallback_value returned in its place, with no retry and no wait.
C6_SingleAttempt ==
    (fn = "call_with_fallback" /\ pc # "call") =>
        /\ NumOutcomes = 1
        /\ waits = <<>>
        /\ outcomes[1].kind = "return" => (pc = "returned" /\ result = outcomes[1].value)
        /\ outcomes[1].kind = "Exception" => (pc = "returned" /\ result = fallback_value)

C6_Witness ==
    /\ fn = "call_with_fallback" /\ pc = "returned"
    /\ outcomes = <<RaisesException>>
    /\ fallback_value = ValueFb /\ result = ValueFb

----------------------------------------------------------------------------
(* Properties of experiment_3_failure_handling *)

\* C18 as stated: whenever the wrapper has returned, after a call_gemini
\* return or with the fallback, the value handed to parse_json is a str, and
\* parse_json does not raise.
C18_ParserGetsText ==
    pc = "returned" => (result.t = "str" /\ vpc # "raised")

====
